---- MODULE Spec2Model ----
(***************************************************************************)
(* Model of cme/protocols/ldap/laps.py: the LDAP session establisher       *)
(* (LDAPConnect.auth_login, LDAPConnect.kerberos_login) and the LAPS v2    *)
(* decryption pipeline (LAPSv2Extract.rpc_connect, LAPSv2Extract.run).     *)
(*                                                                         *)
(* A Python string is a sequence of atoms.  An atom is one character or an *)
(* indivisible run of characters that holds no separator (no blank, no     *)
(* ':', no '.', no ',').  Status codes are spelled character by character, *)
(* so that the slicing the code applies to them is computed, not assumed.  *)
(* A Python bytes value is a sequence of integers in 0..255.               *)
(***************************************************************************)
EXTENDS Integers, Sequences, FiniteSets, TLC

\* ------------------------------------------------------------------ bounds

\* Longest LAPS password (in UTF-16 code units) a blob is built from.
MaxPwLen == 2

\* ------------------------------------------------------- program constants

\* plaintext[:-18]: the trailer stripped from the decrypted payload.
TrailerLen == 18

\* impacket.dcerpc.v5.rpcrt authentication levels, in the order of strength.
RPC_C_AUTHN_LEVEL_PKT_INTEGRITY == 5
RPC_C_AUTHN_LEVEL_PKT_PRIVACY == 6

\* ---------------------------------------------------------- Python strings

\* The value None where a string is expected (kdcHost is None).
None == <<"<None>">>

\* The Python truth value of a string.
Truthy(s) == s # <<>> /\ s # None

\* s.find(a): the 0-based position of the first a in s, or -1.
Find(s, a) ==
    IF \E i \in 1..Len(s) : s[i] = a
    THEN (CHOOSE i \in 1..Len(s) : s[i] = a /\ \A j \in 1..(i - 1) : s[j] # a) - 1
    ELSE -1

\* s.split(sep): the parts between the separators, the empty ones kept.
RECURSIVE SplitOn(_, _)
SplitOn(s, sep) ==
    LET i == Find(s, sep) + 1
    IN  IF i = 0 THEN <<s>>
        ELSE <<SubSeq(s, 1, i - 1)>> \o SplitOn(SubSeq(s, i + 1, Len(s)), sep)

NonEmptyPart(p) == p # <<>>

\* s.split(): the parts between runs of blanks, no empty part.
SplitWs(s) == SelectSeq(SplitOn(s, " "), NonEmptyPart)

\* s[:-n]
DropLast(s, n) == SubSeq(s, 1, Len(s) - n)

\* ------------------------------------------------------- ldap_error_status

StatusTable ==
    { << <<"1">>, "STATUS_NOT_SUPPORTED" >>,
      << <<"5", "3", "3">>, "STATUS_ACCOUNT_DISABLED" >>,
      << <<"7", "0", "1">>, "STATUS_ACCOUNT_EXPIRED" >>,
      << <<"5", "3", "1">>, "STATUS_ACCOUNT_RESTRICTION" >>,
      << <<"5", "3", "0">>, "STATUS_INVALID_LOGON_HOURS" >>,
      << <<"5", "3", "2">>, "STATUS_PASSWORD_EXPIRED" >>,
      << <<"7", "7", "3">>, "STATUS_PASSWORD_MUST_CHANGE" >>,
      << <<"7", "7", "5">>, "USER_ACCOUNT_LOCKED" >>,
      << <<"5", "0">>, "LDAP_INSUFFICIENT_ACCESS" >>,
      << <<"KDC_ERR_CLIENT_REVOKED">>, "KDC_ERR_CLIENT_REVOKED" >>,
      << <<"KDC_ERR_PREAUTH_FAILED">>, "KDC_ERR_PREAUTH_FAILED" >> }

ldap_error_status ==
    [k \in {p[1] : p \in StatusTable} |-> (CHOOSE p \in StatusTable : p[1] = k)[2]]

\* -------------------------------------------------- the directory client

\* str(e) of a session error of a bind: the result name, the diagnostic
\* text and, second to last, the status code followed by a comma.
BindError(result, code) ==
    <<"Error", " ", "in", " ", "bindRequest", " ", "->", " ", result, ":", " ",
      "comment", ":", " ", "data", " ">> \o code \o <<",", " ", "v1db1">>

ErrCodes == { <<"5", "3", "3">>, <<"5", "0">>, <<"5", "2", "e">>, <<"0">> }

ResultNames == {"strongerAuthRequired", "invalidCredentials"}

Bound == [kind |-> "ok", msg |-> <<>>]

SessionErrors ==
    {[kind |-> "LDAPSessionError", msg |-> BindError(r, c)] :
        r \in ResultNames, c \in ErrCodes}

NetworkError == [kind |-> "OSError", msg |-> <<"Connection refused">>]

TicketError == [kind |-> "KerberosError", msg |-> <<"KDC_ERR_PREAUTH_FAILED">>]

\* LDAPConnection(url, ...) returned: the connection is open, no bind yet.
Opened == [kind |-> "open", msg |-> <<>>]

\* What LDAPConnection(url, ...) can do: open the connection or raise OSError.
ConnectionOutcomes == {Opened, NetworkError}

\* What login(...) on an open connection can do.
LoginOutcomes == {Bound, NetworkError} \cup SessionErrors

\* What kerberosLogin(...) on an open connection can do.
KerberosLoginOutcomes == LoginOutcomes \cup {TicketError}

\* ------------------------------------------------------------ LDAPConnect

\* SplitHash with the two halves exchanged.
SplitHash_swapped(ntlm_hash) ==
    IF Truthy(ntlm_hash) /\ Find(ntlm_hash, ":") # -1
    THEN LET parts == SplitOn(ntlm_hash, ":")
         IN  IF Len(parts) = 2
             THEN [ok |-> TRUE, exc |-> "", lmhash |-> parts[2], nthash |-> parts[1]]
             ELSE [ok |-> FALSE, exc |-> "ValueError", lmhash |-> <<>>, nthash |-> <<>>]
    ELSE IF Truthy(ntlm_hash)
         THEN [ok |-> TRUE, exc |-> "", lmhash |-> <<>>, nthash |-> ntlm_hash]
         ELSE [ok |-> TRUE, exc |-> "", lmhash |-> <<>>, nthash |-> <<>>]

\* if ntlm_hash and ntlm_hash.find(":") != -1: lmhash, nthash = split(":")
\* elif ntlm_hash: nthash = ntlm_hash.  Unpacking anything but two parts
\* raises ValueError.
SplitHash(ntlm_hash) ==
    IF Truthy(ntlm_hash) /\ Find(ntlm_hash, ":") # -1
    THEN LET parts == SplitOn(ntlm_hash, ":")
         IN  IF Len(parts) = 2
             THEN [ok |-> TRUE, exc |-> "", lmhash |-> parts[1], nthash |-> parts[2]]
             ELSE [ok |-> FALSE, exc |-> "ValueError", lmhash |-> <<>>, nthash |-> <<>>]
    ELSE IF Truthy(ntlm_hash)
         THEN [ok |-> TRUE, exc |-> "", lmhash |-> <<>>, nthash |-> ntlm_hash]
         ELSE [ok |-> TRUE, exc |-> "", lmhash |-> <<>>, nthash |-> <<>>]

\* baseDN: "dc=<label>," for each label of domain.split("."), last ',' cut
RECURSIVE JoinDC(_)
JoinDC(parts) ==
    IF parts = <<>> THEN <<>>
    ELSE <<"dc=">> \o Head(parts) \o <<",">> \o JoinDC(Tail(parts))

BaseDN(domain) == DropLast(JoinDC(SplitOn(domain, ".")), 1)

PlainUrl(host) == <<"ldap://">> \o host

EncryptedUrl(host) == <<"ldaps://">> \o host

\* One LDAPConnection(url, baseDN[, dstIp]) and the bind call made on it,
\* with the arguments the code passes and what the directory answered.
Attempt(url, baseDN, dstIp, method, username, password, domain, lmhash, nthash, aesKey, kdcHost, useCache, outcome) ==
    [url |-> url, baseDN |-> baseDN, dstIp |-> dstIp, method |-> method,
     username |-> username, password |-> password, domain |-> domain,
     lmhash |-> lmhash, nthash |-> nthash, aesKey |-> aesKey,
     kdcHost |-> kdcHost, useCache |-> useCache, outcome |-> outcome]

\* One LDAPConnection(url, baseDN[, dstIp]) on which no bind call was made:
\* the constructor raised, or the bind is yet to be answered. No credential
\* was handed to the directory client.
Connection(url, baseDN, dstIp, outcome) ==
    Attempt(url, baseDN, dstIp, "none", <<>>, <<>>, <<>>, <<>>, <<>>, <<>>, <<>>,
            FALSE, outcome)

\* IsStrongerAuth with the comparison off by one: find(...) >= -1.
IsStrongerAuth_any(msg) == Find(msg, "strongerAuthRequired") >= -1

\* str(e).find("strongerAuthRequired") >= 0
IsStrongerAuth(msg) == Find(msg, "strongerAuthRequired") >= 0

\* ErrorCode without the [:-1] that cuts the comma.
ErrorCode_uncut(msg) ==
    LET parts == SplitWs(msg) IN parts[Len(parts) - 1]

\* errorCode = str(e).split()[-2][:-1]
ErrorCode(msg) ==
    LET parts == SplitWs(msg) IN DropLast(parts[Len(parts) - 1], 1)

\* ldap_error_status[errorCode] if errorCode in ldap_error_status else ''
Classification(errorCode) ==
    IF errorCode \in DOMAIN ldap_error_status
    THEN <<ldap_error_status[errorCode]>>
    ELSE <<>>

\* "magenta" if errorCode in ldap_error_status else "red"
Color(errorCode) ==
    IF errorCode \in DOMAIN ldap_error_status THEN "magenta" ELSE "red"

\* f"{domain}\\{username}:{password if password else ntlm_hash} {tail}"
Line(domain, username, password, ntlm_hash, tail) ==
    domain \o <<"\\">> \o username \o <<":">>
        \o (IF Truthy(password) THEN password ELSE ntlm_hash) \o <<" ">> \o tail

\* self.logger.fail(f"... {classification}", color=...)
FailRecord(domain, username, password, ntlm_hash, errorCode) ==
    [level |-> "fail",
     msg   |-> Line(domain, username, password, ntlm_hash, Classification(errorCode)),
     color |-> Color(errorCode)]

KdcHostGuidance ==
    <<"Error connecting to the domain, please add option --kdcHost with the FQDN of the domain controller">>

\* self.logger.debug(f"... {'Error connecting to the domain, ...'}")
DebugRecord(domain, username, password, ntlm_hash) ==
    [level |-> "debug",
     msg   |-> Line(domain, username, password, ntlm_hash, KdcHostGuidance),
     color |-> ""]

\* self.logger.fail(f"... {str(e)}", color="red") of a KerberosError
KerberosRecord(domain, username, password, ntlm_hash, msg) ==
    [level |-> "fail",
     msg   |-> Line(domain, username, password, ntlm_hash, msg),
     color |-> "red"]

\* The ways a call ends.
Returned(kind, val) == [kind |-> kind, val |-> val]
Session(url) == Returned("session", url)
False == Returned("False", <<>>)
NoResult == Returned("None", <<>>)
Raised(exc) == Returned("raise", <<exc>>)
NotReturned == Returned("", <<>>)

\* What a login call leaves behind: the bind attempts it made, the records
\* it logged, how it ends and self.logger.extra. When it ends with a
\* session, the two assignments to self.logger.extra that precede the
\* return are still to come.
Outcome(attempts, records, ret, extra) ==
    [attempts |-> attempts, records |-> records, ret |-> ret, extra |-> extra]

\* Rejected with the failure logged twice.
Rejected_twice(attempts, extra, domain, username, password, ntlm_hash, msg) ==
    IF Len(SplitWs(msg)) < 2
    THEN Outcome(attempts, <<>>, Raised("IndexError"), extra)
    ELSE Outcome(attempts,
                 <<FailRecord(domain, username, password, ntlm_hash, ErrorCode(msg)),
                   FailRecord(domain, username, password, ntlm_hash, ErrorCode(msg))>>,
                 [kind |-> "False", val |-> <<>>], extra)

\* except ldap_impacket.LDAPSessionError as e: errorCode = ...;
\* self.logger.fail(...); return False.  A message of fewer than two parts
\* makes split()[-2] raise IndexError inside the handler.
Rejected(attempts, extra, domain, username, password, ntlm_hash, msg) ==
    IF Len(SplitWs(msg)) < 2
    THEN Outcome(attempts, <<>>, Raised("IndexError"), extra)
    ELSE Outcome(attempts,
                 <<FailRecord(domain, username, password, ntlm_hash, ErrorCode(msg))>>,
                 False, extra)

\* self.logger.extra["protocol"] = ...
WriteProtocol(extra, protocol) == [extra EXCEPT !.protocol = protocol]

\* WritePort with the assignment left out.
WritePort_stale(extra, port) == extra

\* self.logger.extra["port"] = ...
WritePort(extra, port) == [extra EXCEPT !.port = port]

\* AuthRetry with the retry repeated while the directory keeps asking for
\* stronger authentication.
AuthRetry_again(attempts, extra, domain, username, password, ntlm_hash, a2) ==
    CASE a2.outcome.kind = "ok" ->
            Outcome(attempts \o <<a2>>, <<>>, Session(a2.url), extra)
      [] a2.outcome.kind = "LDAPSessionError" ->
            IF IsStrongerAuth(a2.outcome.msg)
            THEN Rejected(attempts \o <<a2, a2>>, extra, domain, username, password,
                          ntlm_hash, a2.outcome.msg)
            ELSE Rejected(attempts \o <<a2>>, extra, domain, username, password,
                          ntlm_hash, a2.outcome.msg)
      [] OTHER ->
            Outcome(attempts \o <<a2>>, <<>>, Raised(a2.outcome.kind), extra)

\* The encrypted retry of auth_login and what follows it.
AuthRetry(attempts, extra, domain, username, password, ntlm_hash, a2) ==
    CASE a2.outcome.kind = "ok" ->
            Outcome(attempts \o <<a2>>, <<>>, Session(a2.url), extra)
      [] a2.outcome.kind = "LDAPSessionError" ->
            Rejected(attempts \o <<a2>>, extra, domain, username, password,
                     ntlm_hash, a2.outcome.msg)
      [] OTHER ->
            Outcome(attempts \o <<a2>>, <<>>, Raised(a2.outcome.kind), extra)

\* The plaintext attempt a1 of auth_login and what follows it: the session,
\* the handlers of lines 151-177, or (ret still open) the encrypted retry.
auth_login(extra, domain, username, password, ntlm_hash, a1) ==
    CASE a1.outcome.kind = "ok" ->
            Outcome(<<a1>>, <<>>, Session(a1.url), extra)
      [] a1.outcome.kind = "LDAPSessionError" ->
            IF IsStrongerAuth(a1.outcome.msg)
            THEN Outcome(<<a1>>, <<>>, NotReturned, extra)
            ELSE Rejected(<<a1>>, extra, domain, username, password,
                          ntlm_hash, a1.outcome.msg)
      [] a1.outcome.kind = "OSError" ->
            Outcome(<<a1>>, <<DebugRecord(domain, username, password, ntlm_hash)>>,
                    False, extra)
      [] OTHER ->
            Outcome(<<a1>>, <<>>, Raised(a1.outcome.kind), extra)

\* KerberosRetry with the logger context written ahead of the bind.
KerberosRetry_eager(attempts, extra, domain, username, password, ntlm_hash, a2) ==
    CASE a2.outcome.kind = "ok" ->
            Outcome(attempts \o <<a2>>, <<>>, Session(a2.url), extra)
      [] a2.outcome.kind = "LDAPSessionError" ->
            Rejected(attempts \o <<a2>>, WritePort(WriteProtocol(extra, "LDAPS"), "636"), domain,
                     username, password, ntlm_hash, a2.outcome.msg)
      [] OTHER ->
            Outcome(attempts \o <<a2>>, <<>>, Raised(a2.outcome.kind),
                    WritePort(WriteProtocol(extra, "LDAPS"), "636"))

\* The encrypted retry of kerberos_login and what follows it.
KerberosRetry(attempts, extra, domain, username, password, ntlm_hash, a2) ==
    CASE a2.outcome.kind = "ok" ->
            Outcome(attempts \o <<a2>>, <<>>, Session(a2.url), extra)
      [] a2.outcome.kind = "LDAPSessionError" ->
            Rejected(attempts \o <<a2>>, extra, domain, username, password,
                     ntlm_hash, a2.outcome.msg)
      [] OTHER ->
            Outcome(attempts \o <<a2>>, <<>>, Raised(a2.outcome.kind), extra)

\* The method the encrypted retry of kerberos_login calls on the connection.
KerberosRetryMethod == "login"

\* if kdcHost is None: kdcHost = domain
KdcHost(kdcHostArg, domain) == IF kdcHostArg = None THEN domain ELSE kdcHostArg

\* The plaintext attempt a1 of kerberos_login and what follows it: the
\* session, the handlers of lines 78-119, or (ret still open) the encrypted
\* retry.
kerberos_login(extra, domain, username, password, ntlm_hash, a1) ==
    CASE a1.outcome.kind = "ok" ->
            Outcome(<<a1>>, <<>>, Session(a1.url), extra)
      [] a1.outcome.kind = "LDAPSessionError" ->
            IF IsStrongerAuth(a1.outcome.msg)
            THEN Outcome(<<a1>>, <<>>, NotReturned, extra)
            ELSE Rejected(<<a1>>, extra, domain, username, password,
                          ntlm_hash, a1.outcome.msg)
      [] a1.outcome.kind = "OSError" ->
            Outcome(<<a1>>, <<DebugRecord(domain, username, password, ntlm_hash)>>,
                    False, extra)
      [] a1.outcome.kind = "KerberosError" ->
            Outcome(<<a1>>,
                    <<KerberosRecord(domain, username, password, ntlm_hash,
                                     a1.outcome.msg)>>,
                    False, extra)
      [] OTHER ->
            Outcome(<<a1>>, <<>>, Raised(a1.outcome.kind), extra)

\* ------------------------------------------------- UTF-16LE and the trailer

\* The characters passwords are made of and their code points ("U+20AC"
\* stands for the one character of that code point).
Alphabet == {"A", "U+20AC"}

Ord(c) == IF c = "A" THEN 65 ELSE 8364

\* The character of code point n; one outside Alphabet is named by its
\* code point in decimal.
Chr(n) ==
    IF \E c \in Alphabet : Ord(c) = n
    THEN CHOOSE c \in Alphabet : Ord(c) = n
    ELSE "chr(" \o ToString(n) \o ")"

\* s.encode('utf-16le'): low byte, then high byte, of each code unit
RECURSIVE Encode16(_)
Encode16(s) ==
    IF s = <<>> THEN <<>>
    ELSE <<Ord(Head(s)) % 256, Ord(Head(s)) \div 256>> \o Encode16(Tail(s))

\* The 16-bit code units of an even number of bytes, low byte first.
Units(b) == [i \in 1..(Len(b) \div 2) |-> b[2 * i - 1] + 256 * b[2 * i]]

HighSurrogate(u) == 55296 <= u /\ u <= 56319
LowSurrogate(u) == 56320 <= u /\ u <= 57343

\* Every high surrogate is followed by a low one and no low one stands alone.
RECURSIVE Paired(_)
Paired(u) ==
    IF u = <<>> THEN TRUE
    ELSE IF HighSurrogate(u[1])
         THEN Len(u) >= 2 /\ LowSurrogate(u[2]) /\ Paired(SubSeq(u, 3, Len(u)))
    ELSE IF LowSurrogate(u[1]) THEN FALSE
    ELSE Paired(Tail(u))

\* Whether b.decode('utf-16le') succeeds: an odd number of bytes, or an
\* unpaired surrogate, raises UnicodeDecodeError.
Decodable16(b) == Len(b) % 2 = 0 /\ Paired(Units(b))

\* The characters of well-paired code units.
RECURSIVE DecodeUnits(_)
DecodeUnits(u) ==
    IF u = <<>> THEN <<>>
    ELSE IF HighSurrogate(u[1])
         THEN <<Chr(65536 + (u[1] - 55296) * 1024 + (u[2] - 56320))>>
                  \o DecodeUnits(SubSeq(u, 3, Len(u)))
    ELSE <<Chr(u[1])>> \o DecodeUnits(Tail(u))

\* b.decode('utf-16le')
Decode16(b) == DecodeUnits(Units(b))

\* The trailing block that follows the password in the decrypted payload.
Trailer == [i \in 1..TrailerLen |-> 0]

\* StripTrailer cutting two bytes too many.
StripTrailer_wide(plaintext) == DropLast(plaintext, TrailerLen + 2)

\* plaintext[:-18]
StripTrailer(plaintext) == DropLast(plaintext, TrailerLen)

\* ---------------------------------------- impacket.dpapi_ng, symbolically

RootKeys == {"RK1", "RK2"}

\* GroupKeyEnvelope(b''.join(resp['pbbOut'])): the root-key material the
\* service released, for the key identifier it was asked for.
GroupKeyEnvelope(resp) ==
    [rootKey |-> resp.rootKey, RootKeyId |-> resp.RootKeyId,
     L0Index |-> resp.L0Index, L1Index |-> resp.L1Index, L2Index |-> resp.L2Index]

\* compute_kek(gke, key_id): the key derived from the root key and the key
\* identifier; two derivations agree iff both inputs agree.
compute_kek(gke, key_id) == [rootKey |-> gke.rootKey, key_id |-> key_id]

\* The wrapped content key carried by the recipient info.
Wrap(kek, cek) == [kek |-> kek, cek |-> cek]

\* unwrap_cek(kek, wrapped): the key-wrap integrity check fails under any
\* other key.
CanUnwrap(kek, wrapped) == wrapped.kek = kek
unwrap_cek(kek, wrapped) == wrapped.cek

\* The authenticated encryption of the payload.
Encrypt(cek, iv, plaintext) ==
    [cek |-> cek, iv |-> iv, plaintext |-> plaintext, intact |-> TRUE]

\* decrypt_plaintext(cek, iv, ciphertext): the tag check fails under another
\* key or IV and on a damaged ciphertext.
CanDecrypt(cek, iv, ciphertext) ==
    ciphertext.intact /\ ciphertext.cek = cek /\ ciphertext.iv = iv
decrypt_plaintext(cek, iv, ciphertext) == ciphertext.plaintext

\* create_sd(sid)
create_sd(sid) == <<"O:SYG:SYD:(A;;CCDC;;;", sid, ")(A;;DC;;;WD)">>

\* ------------------------------------------------ the encrypted attribute

KeyIds ==
    { [RootKeyId |-> "root-A", L0Index |-> 1, L1Index |-> 0, L2Index |-> 0] }

Sids == { <<"S-1-5-21-1-2-3-512">> }

ContentKeys == {"CEK1"}

IVs == { <<0, 1, 2, 3, 4, 5, 6, 7, 8, 9, 10, 11>> }

RECURSIVE StrsUpTo(_)
StrsUpTo(n) ==
    IF n = 0 THEN {<<>>}
    ELSE StrsUpTo(n - 1)
         \cup {s \o <<c>> : s \in {t \in StrsUpTo(n - 1) : Len(t) = n - 1}, c \in Alphabet}

Passwords == StrsUpTo(MaxPwLen)

\* The msLAPS-EncryptedPassword value built from password P under root key
\* rk: the header, the ContentInfo with its EnvelopedData (one KEK recipient
\* holding the key identifier, the key attribute with the SID and the
\* wrapped content key; the content-encryption parameters holding the IV)
\* and, after the ContentInfo, the encrypted payload.
BuildBlob(P, rk, key_id, sid, cek, iv) ==
    [packed     |-> TRUE,
     cms        |-> TRUE,
     enveloped  |-> TRUE,
     recipientInfos |->
        << [keyIdentifier |-> key_id,
            keyAttr       |-> [der |-> TRUE, sid |-> sid],
            encryptedKey  |-> Wrap(compute_kek([rootKey |-> rk], key_id), cek)] >>,
     parameters |-> [der |-> TRUE, iv |-> iv],
     remaining  |-> Encrypt(cek, iv, Encode16(P) \o Trailer)]

WellFormedBlobs ==
    { BuildBlob(P, rk, k, sid, cek, iv) :
        P \in Passwords, rk \in RootKeys, k \in KeyIds, sid \in Sids,
        cek \in ContentKeys, iv \in IVs }

\* The ways a blob is damaged, one per decode step of run.
Damage(b, how) ==
    CASE how = "unpack"        -> [b EXCEPT !.packed = FALSE]
      [] how = "ContentInfo"   -> [b EXCEPT !.cms = FALSE]
      [] how = "EnvelopedData" -> [b EXCEPT !.enveloped = FALSE]
      [] how = "recipient"     -> [b EXCEPT !.recipientInfos = <<>>]
      [] how = "keyAttr"       -> [b EXCEPT !.recipientInfos[1].keyAttr.der = FALSE]
      [] how = "parameters"    -> [b EXCEPT !.parameters.der = FALSE]
      [] how = "ciphertext"    -> [b EXCEPT !.remaining.intact = FALSE]
      [] how = "payload"       -> [b EXCEPT !.remaining.plaintext =
                                      DropLast(b.remaining.plaintext, 1)]

\* The damages the decode steps ahead of the RPC exchange meet.
DecodeDamages == {"unpack", "ContentInfo", "EnvelopedData", "recipient", "keyAttr"}

\* The damages met after the key was retrieved.
LateDamages == {"parameters", "ciphertext", "payload"}

\* Whether the decode steps of lines 232-242 all succeed on b.
Decodes(b) ==
    /\ b.packed /\ b.cms /\ b.enveloped
    /\ b.recipientInfos # <<>>
    /\ b.recipientInfos[1].keyAttr.der

\* ------------------------------------------------------------------ state

VARIABLES
    pc,        \* where the program is: "idle", a stage of run, or "returned"
    op,        \* the call in progress or just returned
    extra,     \* LDAPConnect: self.logger.extra
    attempts,  \* the bind attempts the login call made, in order
    records,   \* the log records the call emitted, in order
    ret,       \* how the call ended
    laps,      \* LAPSv2Extract: the fields of self
    frame,     \* the local variables run has bound so far
    dce,       \* the RPC channel rpc_connect builds
    trace,     \* the stages of run carried out so far, in order
    call,      \* the arguments the caller gave the call in progress
    cur,       \* which of two concurrent calls the variables above belong to
    other,     \* the other call's pc, op, attempts, records, ret, laps,
               \* frame, dce, trace and call, kept while it waits for its turn
    sink       \* what the process's log handlers received from the calls in
               \* progress: one entry per record, with the thread that logged
               \* it and the context its logger attached

vars ==
    <<pc, op, extra, attempts, records, ret, laps, frame, dce, trace, call, cur, other,
      sink>>

\* ------------------------------------------------------------ input sets

Domains == { <<"corp", ".", "local">> }
Usernames == { <<"alice">> }
LoginPasswords == { <<>>, <<"P@ssw0rd!">> }
Hashes ==
    { <<>>,
      <<"31d6cfe0d16ae931b73c59d7e0c089c0">>,
      <<"aad3b435b51404eeaad3b435b51404ee", ":", "31d6cfe0d16ae931b73c59d7e0c089c0">>,
      <<"aa", ":", "bb", ":", "cc">> }
AesKeys == { <<>>, <<"4a3f...e1">> }
KdcHosts == { None, <<>>, <<"dc01", ".", "corp", ".", "local">> }

\* LDAPConnect(host, port, hostname): proto_logger
proto_logger(host, port, hostname) ==
    [protocol |-> "LDAP", host |-> host, port |-> port, hostname |-> hostname]

NoChannel ==
    [made |-> FALSE, stringBinding |-> <<>>, credentials |-> <<>>,
     kerberos |-> FALSE, kdcHost |-> <<>>, remoteHost |-> <<>>,
     auth_level |-> 0, connected |-> FALSE, bound |-> FALSE]

NoObject == <<>>
NoLocals == <<>>
NoCall == <<>>

\* A call that was not made yet.
NotStarted ==
    [pc |-> "idle", op |-> "none", attempts |-> <<>>, records |-> <<>>,
     ret |-> NotReturned,
     laps |-> NoObject, frame |-> NoLocals, dce |-> NoChannel, trace |-> <<>>,
     call |-> NoCall]

\* The arguments of a login call (auth_login has no Kerberos parameters).
LoginArgs(domain, username, password, ntlm_hash, aesKey, kdcHost, useCache) ==
    [domain |-> domain, username |-> username, password |-> password,
     ntlm_hash |-> ntlm_hash, aesKey |-> aesKey, kdcHost |-> kdcHost,
     useCache |-> useCache]

Init ==
    /\ pc = "idle"
    /\ op = "none"
    /\ extra = proto_logger(<<"10.0.0.1">>, "3268", <<"dc01">>)
    /\ attempts = <<>>
    /\ records = <<>>
    /\ ret = NotReturned
    /\ laps = NoObject
    /\ frame = NoLocals
    /\ dce = NoChannel
    /\ trace = <<>>
    /\ call = NoCall
    /\ cur = 1
    /\ other = NotStarted
    /\ sink = {}

\* ---------------------------------------------------------- login calls

\* LoggerContext with one adapter for the whole process.
LoggerContext_shared == extra

\* self.logger.extra of the object whose method is running: an LDAPConnect
\* and every LAPSv2Extract make their own adapter in proto_logger.
LoggerContext ==
    IF op = "run" THEN laps.extra ELSE extra

\* self.logger.info / fail / debug: each record the step logged reaches the
\* handlers of the process with the adapter's context attached.
Emit ==
    sink' = sink \cup { [by |-> cur, n |-> n, extra |-> LoggerContext,
                          record |-> records'[n]] :
                            n \in (Len(records) + 1)..Len(records') }

\* What a step of a login call leaves behind; the call goes on at next
\* while it has not ended, and at the assignments to self.logger.extra when
\* the bind succeeded.
Leave(r, next) ==
    /\ attempts' = r.attempts
    /\ records' = r.records
    /\ Emit
    /\ ret' = IF r.ret.kind = "session" THEN NotReturned ELSE r.ret
    /\ extra' = r.extra
    /\ pc' = IF r.ret = NotReturned THEN next
             ELSE IF r.ret.kind # "session" THEN "returned"
             ELSE IF pc = "ldap_bind" THEN "ldap_protocol" ELSE "ldaps_protocol"

\* A step of a login call leaves the call's arguments and locals, and
\* everything of LAPSv2Extract, alone.
InLogin(name, stage) ==
    /\ op = name
    /\ pc = stage
    /\ UNCHANGED <<op, call, frame, laps, dce, trace, cur, other>>

\* auth_login(domain, username, password, ntlm_hash) is called: the hash is
\* split and baseDN built (lines 122-137).
CallAuthLogin(domain, username, password, ntlm_hash) ==
    /\ LET h == SplitHash(ntlm_hash)
       IN  IF h.ok
           THEN /\ frame' = ("lmhash" :> h.lmhash) @@ ("nthash" :> h.nthash)
                               @@ ("baseDN" :> BaseDN(domain))
                /\ pc' = "ldap_connect"
                /\ ret' = ret
           ELSE /\ frame' = frame
                /\ pc' = "returned"
                /\ ret' = Raised(h.exc)
    /\ call' = LoginArgs(domain, username, password, ntlm_hash, <<>>, <<>>, FALSE)
    /\ op' = "auth_login"
    /\ UNCHANGED <<extra, attempts, records, laps, dce, trace, cur, other, sink>>

AuthLogin ==
    /\ pc = "idle"
    /\ \E domain \in Domains, username \in Usernames, password \in LoginPasswords,
          ntlm_hash \in Hashes :
          CallAuthLogin(domain, username, password, ntlm_hash)

\* ldapConnection = LDAPConnection(f"ldap://{domain}", baseDN, domain)
AuthConnect ==
    /\ InLogin("auth_login", "ldap_connect")
    /\ \E o \in ConnectionOutcomes :
          LET c == Connection(PlainUrl(call.domain), frame.baseDN, call.domain, o)
          IN  IF o = Opened
              THEN /\ attempts' = <<c>>
                   /\ pc' = "ldap_bind"
                   /\ UNCHANGED <<records, ret, extra, sink>>
              ELSE Leave(auth_login(extra, call.domain, call.username,
                                    call.password, call.ntlm_hash, c), "returned")

\* ldapConnection.login(username, password, domain, lmhash, nthash) and the
\* handlers around it
AuthBind ==
    /\ InLogin("auth_login", "ldap_bind")
    /\ \E o \in LoginOutcomes :
          LET a1 == Attempt(PlainUrl(call.domain), frame.baseDN, call.domain,
                            "login", call.username, call.password, call.domain,
                            frame.lmhash, frame.nthash, <<>>, <<>>, FALSE, o)
          IN  Leave(auth_login(extra, call.domain, call.username, call.password,
                               call.ntlm_hash, a1), "ldaps_connect")

\* ldapConnection = LDAPConnection(f"ldaps://{domain}", baseDN, domain)
AuthRetryConnect ==
    /\ InLogin("auth_login", "ldaps_connect")
    /\ \E o \in ConnectionOutcomes :
          LET c == Connection(EncryptedUrl(call.domain), frame.baseDN, call.domain, o)
          IN  IF o = Opened
              THEN /\ attempts' = Append(attempts, c)
                   /\ pc' = "ldaps_bind"
                   /\ UNCHANGED <<records, ret, extra, sink>>
              ELSE Leave(AuthRetry(<<attempts[1]>>, extra, call.domain,
                                   call.username, call.password, call.ntlm_hash, c),
                         "returned")

\* ldapConnection.login(username, password, domain, lmhash, nthash) on the
\* ldaps:// connection and the handler around it
AuthRetryBind ==
    /\ InLogin("auth_login", "ldaps_bind")
    /\ \E o \in LoginOutcomes :
          LET a2 == Attempt(EncryptedUrl(call.domain), frame.baseDN, call.domain,
                            "login", call.username, call.password, call.domain,
                            frame.lmhash, frame.nthash, <<>>, <<>>, FALSE, o)
          IN  Leave(AuthRetry(<<attempts[1]>>, extra, call.domain, call.username,
                              call.password, call.ntlm_hash, a2), "returned")

\* self.logger.extra["protocol"] = "LDAP" (line 145)
AuthProtocol ==
    /\ InLogin("auth_login", "ldap_protocol")
    /\ extra' = WriteProtocol(extra, "LDAP")
    /\ pc' = "ldap_port"
    /\ UNCHANGED <<attempts, records, ret, sink>>

\* self.logger.extra["port"] = "389" (line 146); return ldapConnection
AuthPort ==
    /\ InLogin("auth_login", "ldap_port")
    /\ extra' = WritePort(extra, "389")
    /\ ret' = Session(attempts[Len(attempts)].url)
    /\ pc' = "returned"
    /\ UNCHANGED <<attempts, records, sink>>

\* self.logger.extra["protocol"] = "LDAPS" (line 157)
AuthRetryProtocol ==
    /\ InLogin("auth_login", "ldaps_protocol")
    /\ extra' = WriteProtocol(extra, "LDAPS")
    /\ pc' = "ldaps_port"
    /\ UNCHANGED <<attempts, records, ret, sink>>

\* self.logger.extra["port"] = "636" (line 158); return ldapConnection
AuthRetryPort ==
    /\ InLogin("auth_login", "ldaps_port")
    /\ extra' = WritePort(extra, "636")
    /\ ret' = Session(attempts[Len(attempts)].url)
    /\ pc' = "returned"
    /\ UNCHANGED <<attempts, records, sink>>

\* kerberos_login(domain, username, password, ntlm_hash, aesKey, kdcHost,
\* useCache) is called: kdcHost defaults to the domain when None, the hash
\* is split and baseDN built (lines 44-59).
CallKerberosLogin(domain, username, password, ntlm_hash, aesKey, kdcHost, useCache) ==
    /\ LET h == SplitHash(ntlm_hash)
       IN  IF h.ok
           THEN /\ frame' = ("lmhash" :> h.lmhash) @@ ("nthash" :> h.nthash)
                               @@ ("baseDN" :> BaseDN(domain))
                               @@ ("kdcHost" :> KdcHost(kdcHost, domain))
                /\ pc' = "ldap_connect"
                /\ ret' = ret
           ELSE /\ frame' = frame
                /\ pc' = "returned"
                /\ ret' = Raised(h.exc)
    /\ call' = LoginArgs(domain, username, password, ntlm_hash, aesKey, kdcHost,
                         useCache)
    /\ op' = "kerberos_login"
    /\ UNCHANGED <<extra, attempts, records, laps, dce, trace, cur, other, sink>>

KerberosLogin ==
    /\ pc = "idle"
    /\ \E domain \in Domains, username \in Usernames, password \in LoginPasswords,
          ntlm_hash \in Hashes, aesKey \in AesKeys, kdcHost \in KdcHosts,
          useCache \in BOOLEAN :
          CallKerberosLogin(domain, username, password, ntlm_hash, aesKey, kdcHost,
                            useCache)

\* ldapConnection = LDAPConnection(f"ldap://{kdcHost}", baseDN)
KerberosConnect ==
    /\ InLogin("kerberos_login", "ldap_connect")
    /\ \E o \in ConnectionOutcomes :
          LET c == Connection(PlainUrl(frame.kdcHost), frame.baseDN, <<>>, o)
          IN  IF o = Opened
              THEN /\ attempts' = <<c>>
                   /\ pc' = "ldap_bind"
                   /\ UNCHANGED <<records, ret, extra, sink>>
              ELSE Leave(kerberos_login(extra, call.domain, call.username,
                                        call.password, call.ntlm_hash, c), "returned")

\* ldapConnection.kerberosLogin(username, password, domain, lmhash, nthash,
\* aesKey, kdcHost=kdcHost, useCache=False) and the handlers around it
KerberosBind ==
    /\ InLogin("kerberos_login", "ldap_bind")
    /\ \E o \in KerberosLoginOutcomes :
          LET a1 == Attempt(PlainUrl(frame.kdcHost), frame.baseDN, <<>>,
                            "kerberosLogin", call.username, call.password,
                            call.domain, frame.lmhash, frame.nthash, call.aesKey,
                            frame.kdcHost, FALSE, o)
          IN  Leave(kerberos_login(extra, call.domain, call.username, call.password,
                                   call.ntlm_hash, a1), "ldaps_connect")

\* ldapConnection = LDAPConnection(f"ldaps://{kdcHost}", baseDN)
KerberosRetryConnect ==
    /\ InLogin("kerberos_login", "ldaps_connect")
    /\ \E o \in ConnectionOutcomes :
          LET c == Connection(EncryptedUrl(frame.kdcHost), frame.baseDN, <<>>, o)
          IN  IF o = Opened
              THEN /\ attempts' = Append(attempts, c)
                   /\ pc' = "ldaps_bind"
                   /\ UNCHANGED <<records, ret, extra, sink>>
              ELSE Leave(KerberosRetry(<<attempts[1]>>, extra, call.domain,
                                       call.username, call.password,
                                       call.ntlm_hash, c), "returned")

\* ldapConnection.login(username, password, domain, lmhash, nthash, aesKey,
\* kdcHost=kdcHost, useCache=False) on the ldaps:// connection and the
\* handler around it
KerberosRetryBind ==
    /\ InLogin("kerberos_login", "ldaps_bind")
    /\ \E o \in LoginOutcomes :
          LET a2 == Attempt(EncryptedUrl(frame.kdcHost), frame.baseDN, <<>>,
                            KerberosRetryMethod, call.username, call.password,
                            call.domain, frame.lmhash, frame.nthash, call.aesKey,
                            frame.kdcHost, FALSE, o)
          IN  Leave(KerberosRetry(<<attempts[1]>>, extra, call.domain,
                                  call.username, call.password, call.ntlm_hash, a2),
                    "returned")

\* self.logger.extra["protocol"] = "LDAP" (line 75)
KerberosProtocol ==
    /\ InLogin("kerberos_login", "ldap_protocol")
    /\ extra' = WriteProtocol(extra, "LDAP")
    /\ pc' = "ldap_port"
    /\ UNCHANGED <<attempts, records, ret, sink>>

\* self.logger.extra["port"] = "389" (line 76); return ldapConnection
KerberosPort ==
    /\ InLogin("kerberos_login", "ldap_port")
    /\ extra' = WritePort(extra, "389")
    /\ ret' = Session(attempts[Len(attempts)].url)
    /\ pc' = "returned"
    /\ UNCHANGED <<attempts, records, sink>>

\* self.logger.extra["protocol"] = "LDAPS" (line 93)
KerberosRetryProtocol ==
    /\ InLogin("kerberos_login", "ldaps_protocol")
    /\ extra' = WriteProtocol(extra, "LDAPS")
    /\ pc' = "ldaps_port"
    /\ UNCHANGED <<attempts, records, ret, sink>>

\* self.logger.extra["port"] = "636" (line 94); return ldapConnection
KerberosRetryPort ==
    /\ InLogin("kerberos_login", "ldaps_port")
    /\ extra' = WritePort(extra, "636")
    /\ ret' = Session(attempts[Len(attempts)].url)
    /\ pc' = "returned"
    /\ UNCHANGED <<attempts, records, sink>>

\* The caller takes the result; the objects stay, the call's locals go.
Return ==
    /\ pc = "returned"
    /\ pc' = "idle"
    /\ op' = "none"
    /\ attempts' = <<>>
    /\ records' = <<>>
    /\ ret' = NotReturned
    /\ laps' = NoObject
    /\ frame' = NoLocals
    /\ dce' = NoChannel
    /\ trace' = <<>>
    /\ call' = NoCall
    /\ sink' = {e \in sink : e.by # cur}
    /\ UNCHANGED <<extra, cur, other>>

\* ---------------------------------------------------------- LAPSv2Extract

RunPasswords == { <<"P@ssw0rd!">> }
RunHashes ==
    { <<>>,
      <<"31d6cfe0d16ae931b73c59d7e0c089c0">>,
      <<"aad3b435b51404eeaad3b435b51404ee", ":", "31d6cfe0d16ae931b73c59d7e0c089c0">> }
RunDomains == { <<"corp", ".", "local">> }
RunPorts == {"389", "636"}

Blobs ==
    WellFormedBlobs
    \cup { Damage(b, how) : b \in WellFormedBlobs, how \in DecodeDamages \cup LateDamages }

\* if ntlm_hash.find(":") != -1: self.lmhash, self.nthash = split(":")
\* else: self.nthash = ntlm_hash; self.lmhash = ''.  There is no truth test
\* here: None has no find and raises AttributeError.
SplitHashV2(ntlm_hash) ==
    IF ntlm_hash = None
    THEN [ok |-> FALSE, exc |-> "AttributeError", lmhash |-> <<>>, nthash |-> <<>>]
    ELSE IF Find(ntlm_hash, ":") # -1
    THEN LET parts == SplitOn(ntlm_hash, ":")
         IN  IF Len(parts) = 2
             THEN [ok |-> TRUE, exc |-> "", lmhash |-> parts[1], nthash |-> parts[2]]
             ELSE [ok |-> FALSE, exc |-> "ValueError", lmhash |-> <<>>, nthash |-> <<>>]
    ELSE [ok |-> TRUE, exc |-> "", lmhash |-> <<>>, nthash |-> ntlm_hash]

\* self.logger.info(text)
Info(text) == [level |-> "info", msg |-> text, color |-> ""]

\* ProgramOrder with the IV decoded ahead of the KEK derivation.
ProgramOrder_swapped ==
    <<"unpack", "ContentInfo", "EnvelopedData", "recipient", "key_id", "create_sd",
      "hept_map", "transport", "set_auth_level_1", "set_auth_level_2", "connect",
      "bind", "GetKey", "GroupKeyEnvelope", "iv", "compute_kek", "unwrap_cek",
      "decrypt", "strip">>

\* The statements of run, and of the rpc_connect it calls, in program order.
ProgramOrder ==
    <<"unpack", "ContentInfo", "EnvelopedData", "recipient", "key_id", "create_sd",
      "hept_map", "transport", "set_auth_level_1", "set_auth_level_2", "connect",
      "bind", "GetKey", "GroupKeyEnvelope", "compute_kek", "iv", "unwrap_cek",
      "decrypt", "strip">>

\* The statement that follows stage in program order.
After(stage) ==
    LET i == CHOOSE j \in 1..Len(ProgramOrder) : ProgramOrder[j] = stage
    IN  IF i = Len(ProgramOrder) THEN "returned" ELSE ProgramOrder[i + 1]

\* AuthLevelSequence with the two calls exchanged.
AuthLevelSequence_reversed ==
    <<RPC_C_AUTHN_LEVEL_PKT_PRIVACY, RPC_C_AUTHN_LEVEL_PKT_INTEGRITY>>

\* dce.set_auth_level(...) twice: the levels in the order the code sets them
AuthLevelSequence ==
    <<RPC_C_AUTHN_LEVEL_PKT_INTEGRITY, RPC_C_AUTHN_LEVEL_PKT_PRIVACY>>

\* The statement at stage runs.
At(stage) ==
    /\ pc = stage
    /\ trace' = Append(trace, stage)
    /\ UNCHANGED <<op, extra, attempts, laps, call, cur, other>>

\* The statement at stage binds local variable name and goes on.
Let(stage, name, value) ==
    /\ frame' = frame @@ (name :> value)
    /\ pc' = After(stage)
    /\ ret' = ret

\* The statement raises: nothing in run or rpc_connect catches it.
Raise(exc) ==
    /\ pc' = "returned"
    /\ ret' = Raised(exc)
    /\ frame' = frame

\* LAPSv2Extract(data, username, password, domain, ntlm_hash, do_kerberos,
\* port), then run() is called on the object.
Construct(data, username, password, domain, ntlm_hash, do_kerberos, port) ==
    /\ LET h == SplitHashV2(ntlm_hash)
       IN  /\ call' = [data |-> data, username |-> username,
                       password |-> password, domain |-> domain,
                       ntlm_hash |-> ntlm_hash, do_kerberos |-> do_kerberos,
                       port |-> port]
           /\ IF h.ok
              THEN /\ laps' = [data |-> data, username |-> username,
                               password |-> password, domain |-> domain,
                               lmhash |-> h.lmhash, nthash |-> h.nthash,
                               do_kerberos |-> do_kerberos,
                               extra |-> proto_logger(domain, port, domain)]
                   /\ pc' = ProgramOrder[1]
                   /\ ret' = ret
              ELSE /\ laps' = laps
                   /\ pc' = "returned"
                   /\ ret' = Raised(h.exc)
    /\ op' = "run"
    /\ UNCHANGED <<extra, attempts, records, frame, dce, trace, cur, other, sink>>

\* One LAPSv2Extract object is made and run.
LAPSv2Extract_init ==
    /\ pc = "idle"
    /\ \E data \in Blobs, username \in Usernames, password \in RunPasswords,
          domain \in RunDomains, ntlm_hash \in RunHashes, do_kerberos \in BOOLEAN,
          port \in RunPorts :
          Construct(data, username, password, domain, ntlm_hash, do_kerberos, port)

\* rawblob = EncryptedPasswordBlob(self.data)
Unpack ==
    /\ At("unpack")
    /\ records' = Append(records, Info(<<"[-] Unpacking blob">>))
    /\ IF laps.data.packed
       THEN Let("unpack", "rawblob", laps.data)
       ELSE Raise("struct.error")
    /\ UNCHANGED dce
    /\ Emit

\* parsed_cms_data, remaining = decoder.decode(rawblob['Blob'], ContentInfo)
DecodeContentInfo ==
    /\ At("ContentInfo")
    /\ IF frame.rawblob.cms
       THEN Let("ContentInfo", "remaining", frame.rawblob.remaining)
       ELSE Raise("PyAsn1Error")
    /\ UNCHANGED <<records, dce, sink>>

\* parsed_enveloped_data, _ = decoder.decode(enveloped_data_blob, EnvelopedData)
DecodeEnvelopedData ==
    /\ At("EnvelopedData")
    /\ IF frame.rawblob.enveloped
       THEN Let("EnvelopedData", "parsed_enveloped_data",
                [recipientInfos |-> frame.rawblob.recipientInfos,
                 parameters |-> frame.rawblob.parameters])
       ELSE Raise("PyAsn1Error")
    /\ UNCHANGED <<records, dce, sink>>

\* kek_recipient_info = recipient_infos[0]['kekri']
SelectRecipient ==
    /\ At("recipient")
    /\ IF Len(frame.parsed_enveloped_data.recipientInfos) >= 1
       THEN Let("recipient", "kek_recipient_info",
                frame.parsed_enveloped_data.recipientInfos[1])
       ELSE Raise("IndexError")
    /\ UNCHANGED <<records, dce, sink>>

\* key_id = KeyIdentifier(...); tmp, _ = decoder.decode(keyAttr); sid = ...
ExtractKeyId ==
    /\ At("key_id")
    /\ IF frame.kek_recipient_info.keyAttr.der
       THEN /\ frame' = frame @@ ("key_id" :> frame.kek_recipient_info.keyIdentifier)
                              @@ ("sid" :> frame.kek_recipient_info.keyAttr.sid)
            /\ pc' = After("key_id")
            /\ ret' = ret
       ELSE Raise("PyAsn1Error")
    /\ UNCHANGED <<records, dce, sink>>

\* target_sd = create_sd(sid)
CreateSd ==
    /\ At("create_sd")
    /\ Let("create_sd", "target_sd", create_sd(frame.sid))
    /\ UNCHANGED <<records, dce, sink>>

\* rpc_connect: stringBinding = hept_map(destHost=dcHost, remoteIf=MSRPC_UUID_GKDI, ...)
HeptMap ==
    /\ At("hept_map")
    /\ \E found \in BOOLEAN :
          IF found
          THEN Let("hept_map", "stringBinding",
                   <<"ncacn_ip_tcp:">> \o laps.domain \o <<"[49667]">>)
          ELSE Raise("DCERPCException")
    /\ UNCHANGED <<records, dce, sink>>

\* rpc_connect: the transport the factory makes for the binding, with
\* set_credentials if the transport has that method, set_kerberos if
\* doKerberos, setRemoteHost if dcHost, and dce = rpctransport.get_dce_rpc()
Transport ==
    /\ At("transport")
    /\ \E has_set_credentials \in BOOLEAN :
          dce' = [dce EXCEPT
                    !.made = TRUE,
                    !.stringBinding = frame.stringBinding,
                    !.credentials =
                        IF has_set_credentials
                        THEN <<laps.username, laps.password, laps.domain,
                               laps.lmhash, laps.nthash>>
                        ELSE <<>>,
                    !.kerberos = laps.do_kerberos,
                    !.kdcHost = IF laps.do_kerberos THEN laps.domain ELSE <<>>,
                    !.remoteHost = IF Truthy(laps.domain) THEN laps.domain ELSE <<>>]
    /\ pc' = After("transport")
    /\ UNCHANGED <<records, ret, frame, sink>>

\* rpc_connect: dce.set_auth_level(RPC_C_AUTHN_LEVEL_PKT_INTEGRITY)
SetAuthLevelFirst ==
    /\ At("set_auth_level_1")
    /\ dce' = [dce EXCEPT !.auth_level = AuthLevelSequence[1]]
    /\ pc' = After("set_auth_level_1")
    /\ UNCHANGED <<records, ret, frame, sink>>

\* rpc_connect: dce.set_auth_level(RPC_C_AUTHN_LEVEL_PKT_PRIVACY)
SetAuthLevelSecond ==
    /\ At("set_auth_level_2")
    /\ dce' = [dce EXCEPT !.auth_level = AuthLevelSequence[2]]
    /\ pc' = After("set_auth_level_2")
    /\ UNCHANGED <<records, ret, frame, sink>>

\* str(e) of what dce.connect() raises.
ConnectErrors == { <<>>, <<"Connection refused">> }

\* The run waits inside a library call that blocks on the network: the
\* statement before it was carried out, the call has not come back.
Blocked(callee) ==
    /\ pc = callee
    /\ UNCHANGED <<op, extra, attempts, laps, call, cur, other, trace>>

\* rpc_connect: self.logger.info("[-] Connecting to %s" % stringBinding),
\* then dce.connect() is entered
Connect ==
    /\ At("connect")
    /\ records' = Append(records, Info(<<"[-] Connecting to ">> \o frame.stringBinding))
    /\ pc' = "dce.connect"
    /\ UNCHANGED <<ret, frame, dce>>
    /\ Emit

\* ConnectAnswer with a failed connect tried once more.
ConnectAnswer_retry ==
    /\ Blocked("dce.connect")
    /\ \E e \in {<<"ok">>} \cup ConnectErrors :
          IF e = <<"ok">>
          THEN /\ dce' = [dce EXCEPT !.connected = TRUE]
               /\ records' = Append(records, Info(<<"[+] Connected">>))
               /\ pc' = After("connect")
               /\ ret' = ret
          ELSE /\ dce' = dce
               /\ records' = Append(records,
                     Info(<<"Something went wrong, check error status => ">> \o e))
               /\ IF Cardinality({i \in 1..Len(trace) : trace[i] = "connect"}) = 1
                  THEN pc' = "connect" /\ ret' = ret
                  ELSE pc' = "returned" /\ ret' = NoResult
    /\ UNCHANGED frame
    /\ Emit

\* rpc_connect: dce.connect() comes back: except Exception: log str(e),
\* return None, and run: if dce is None: return; else log "[+] Connected"
ConnectAnswer ==
    /\ Blocked("dce.connect")
    /\ \E e \in {<<"ok">>} \cup ConnectErrors :
          IF e = <<"ok">>
          THEN /\ dce' = [dce EXCEPT !.connected = TRUE]
               /\ records' = Append(records, Info(<<"[+] Connected">>))
               /\ pc' = After("connect")
               /\ ret' = ret
          ELSE /\ dce' = dce
               /\ records' = Append(records,
                     Info(<<"Something went wrong, check error status => ">> \o e))
               /\ pc' = "returned"
               /\ ret' = NoResult
    /\ UNCHANGED frame
    /\ Emit

\* rpc_connect: self.logger.info("[+] Binding to MS-GKDI"), then
\* dce.bind(MSRPC_UUID_GKDI) is entered
Bind ==
    /\ At("bind")
    /\ records' = Append(records, Info(<<"[+] Binding to MS-GKDI">>))
    /\ pc' = "dce.bind"
    /\ UNCHANGED <<ret, frame, dce>>
    /\ Emit

\* rpc_connect: dce.bind() comes back: on an exception the handler
\* evaluates traceback.self, which raises AttributeError before it logs or
\* returns; else log "[+] Successfully bound" and return dce to run
BindAnswer ==
    /\ Blocked("dce.bind")
    /\ \E bound \in BOOLEAN :
          IF bound
          THEN /\ dce' = [dce EXCEPT !.bound = TRUE]
               /\ records' = Append(records, Info(<<"[+] Successfully bound">>))
               /\ Let("bind", "dce", "channel")
          ELSE /\ dce' = dce
               /\ records' = records
               /\ Raise("AttributeError")
    /\ Emit

\* run: self.logger.info("[-] Calling MS-GKDI GetKey"), then GkdiGetKey(dce,
\* target_sd=target_sd, l0=..., l1=..., l2=..., root_key_id=...) is entered
GetKey ==
    /\ At("GetKey")
    /\ records' = Append(records, Info(<<"[-] Calling MS-GKDI GetKey">>))
    /\ pc' = "GkdiGetKey"
    /\ UNCHANGED <<ret, frame, dce>>
    /\ Emit

\* run: GkdiGetKey comes back: resp = the answer, or the call raises
GetKeyAnswer ==
    /\ Blocked("GkdiGetKey")
    /\ \E released \in BOOLEAN, rk \in RootKeys :
          IF released
          THEN Let("GetKey", "resp",
                   [rootKey |-> rk, target_sd |-> frame.target_sd,
                    RootKeyId |-> frame.key_id.RootKeyId,
                    L0Index |-> frame.key_id.L0Index,
                    L1Index |-> frame.key_id.L1Index,
                    L2Index |-> frame.key_id.L2Index])
          ELSE Raise("DCERPCException")
    /\ UNCHANGED <<records, dce, sink>>

\* gke = GroupKeyEnvelope(b''.join(resp['pbbOut']))
Envelope ==
    /\ At("GroupKeyEnvelope")
    /\ records' = Append(records, Info(<<"[-] Decrypting password">>))
    /\ Let("GroupKeyEnvelope", "gke", GroupKeyEnvelope(frame.resp))
    /\ UNCHANGED dce
    /\ Emit

\* kek = compute_kek(gke, key_id)
ComputeKek ==
    /\ At("compute_kek")
    /\ Let("compute_kek", "kek", compute_kek(frame.gke, frame.key_id))
    /\ UNCHANGED <<records, dce, sink>>

\* iv, _ = decoder.decode(enc_content_parameter); iv = bytes(iv[0])
DecodeIV ==
    /\ At("iv")
    /\ IF frame.parsed_enveloped_data.parameters.der
       THEN Let("iv", "iv", frame.parsed_enveloped_data.parameters.iv)
       ELSE Raise("PyAsn1Error")
    /\ UNCHANGED <<records, dce, sink>>

\* cek = unwrap_cek(kek, bytes(kek_recipient_info['encryptedKey']))
UnwrapCek ==
    /\ At("unwrap_cek")
    /\ IF CanUnwrap(frame.kek, frame.kek_recipient_info.encryptedKey)
       THEN Let("unwrap_cek", "cek",
                unwrap_cek(frame.kek, frame.kek_recipient_info.encryptedKey))
       ELSE Raise("InvalidUnwrap")
    /\ UNCHANGED <<records, dce, sink>>

\* plaintext = decrypt_plaintext(cek, iv, remaining)
Decrypt ==
    /\ At("decrypt")
    /\ IF CanDecrypt(frame.cek, frame.iv, frame.remaining)
       THEN Let("decrypt", "plaintext",
                decrypt_plaintext(frame.cek, frame.iv, frame.remaining))
       ELSE Raise("InvalidTag")
    /\ UNCHANGED <<records, dce, sink>>

\* self.logger.info(plaintext[:-18].decode('utf-16le')); return the same
Strip ==
    /\ At("strip")
    /\ IF Decodable16(StripTrailer(frame.plaintext))
       THEN /\ records' = Append(records, Info(Decode16(StripTrailer(frame.plaintext))))
            /\ ret' = Returned("str", Decode16(StripTrailer(frame.plaintext)))
       ELSE /\ records' = records
            /\ ret' = Raised("UnicodeDecodeError")
    /\ pc' = "returned"
    /\ UNCHANGED <<frame, dce>>
    /\ Emit

Next ==
    \/ AuthLogin
    \/ AuthConnect
    \/ AuthBind
    \/ AuthProtocol
    \/ AuthPort
    \/ AuthRetryConnect
    \/ AuthRetryBind
    \/ AuthRetryProtocol
    \/ AuthRetryPort
    \/ KerberosLogin
    \/ KerberosConnect
    \/ KerberosBind
    \/ KerberosProtocol
    \/ KerberosPort
    \/ KerberosRetryConnect
    \/ KerberosRetryBind
    \/ KerberosRetryProtocol
    \/ KerberosRetryPort
    \/ LAPSv2Extract_init
    \/ Unpack
    \/ DecodeContentInfo
    \/ DecodeEnvelopedData
    \/ SelectRecipient
    \/ ExtractKeyId
    \/ CreateSd
    \/ HeptMap
    \/ Transport
    \/ SetAuthLevelFirst
    \/ SetAuthLevelSecond
    \/ Connect
    \/ ConnectAnswer
    \/ Bind
    \/ BindAnswer
    \/ GetKey
    \/ GetKeyAnswer
    \/ Envelope
    \/ ComputeKek
    \/ DecodeIV
    \/ UnwrapCek
    \/ Decrypt
    \/ Strip
    \/ Return

Spec == Init /\ [][Next]_vars

\* ------------------------------------------------- two runs, interleaved

\* The whole of run as one function of the blob and of what the endpoint
\* mapper, the connect, the bind and the key service answered.
run(data, found, connected, bound, released, rk) ==
    IF ~data.packed THEN Raised("struct.error")
    ELSE IF ~data.cms \/ ~data.enveloped THEN Raised("PyAsn1Error")
    ELSE IF Len(data.recipientInfos) < 1 THEN Raised("IndexError")
    ELSE LET kek_recipient_info == data.recipientInfos[1]
             key_id == kek_recipient_info.keyIdentifier
             gke == GroupKeyEnvelope([rootKey |-> rk,
                                      RootKeyId |-> key_id.RootKeyId,
                                      L0Index |-> key_id.L0Index,
                                      L1Index |-> key_id.L1Index,
                                      L2Index |-> key_id.L2Index])
             kek == compute_kek(gke, key_id)
             wrapped == kek_recipient_info.encryptedKey
             cek == unwrap_cek(kek, wrapped)
             iv == data.parameters.iv
             plaintext == decrypt_plaintext(cek, iv, data.remaining)
         IN  IF ~kek_recipient_info.keyAttr.der THEN Raised("PyAsn1Error")
             ELSE IF ~found THEN Raised("DCERPCException")
             ELSE IF ~connected THEN NoResult
             ELSE IF ~bound THEN Raised("AttributeError")
             ELSE IF ~released THEN Raised("DCERPCException")
             ELSE IF ~data.parameters.der THEN Raised("PyAsn1Error")
             ELSE IF ~CanUnwrap(kek, wrapped) THEN Raised("InvalidUnwrap")
             ELSE IF ~CanDecrypt(cek, iv, data.remaining) THEN Raised("InvalidTag")
             ELSE IF ~Decodable16(StripTrailer(plaintext))
                  THEN Raised("UnicodeDecodeError")
             ELSE Returned("str", Decode16(StripTrailer(plaintext)))

RunIds == {1, 2}

\* The password each caller's blob holds.
TwoRunPasswords(i) == IF i = 1 THEN <<"A">> ELSE <<"U+20AC">>

\* What each of the two callers constructs its object from: its own blobs,
\* account, domain and hash.
TwoRunBlobs(i) ==
    LET k == CHOOSE x \in KeyIds : TRUE
        sid == CHOOSE x \in Sids : TRUE
        cek == CHOOSE x \in ContentKeys : TRUE
        iv == CHOOSE x \in IVs : TRUE
        b1 == BuildBlob(TwoRunPasswords(1), "RK1", k, sid, cek, iv)
        b2 == BuildBlob(TwoRunPasswords(2), "RK2", k, sid, cek, iv)
    IN  IF i = 1 THEN {b1, Damage(b1, "ciphertext")}
        ELSE {b2, Damage(b2, "recipient")}

TwoRunCredentials(i) ==
    IF i = 1
    THEN [username |-> <<"alice">>, password |-> <<"P@ssw0rd!">>,
          domain |-> <<"corp", ".", "local">>,
          ntlm_hash |-> <<"31d6cfe0d16ae931b73c59d7e0c089c0">>,
          do_kerberos |-> FALSE, port |-> "389"]
    ELSE [username |-> <<"svc_laps">>, password |-> <<>>,
          domain |-> <<"lab", ".", "local">>,
          ntlm_hash |-> <<"aad3b435b51404eeaad3b435b51404ee", ":",
                          "8846f7eaee8fb117ad06bdd830b7586c">>,
          do_kerberos |-> TRUE, port |-> "636"]

\* The caller of run cur makes its object and calls run() on it.
ConstructOwn ==
    /\ pc = "idle"
    /\ \E data \in TwoRunBlobs(cur) :
          LET c == TwoRunCredentials(cur)
          IN  Construct(data, c.username, c.password, c.domain, c.ntlm_hash,
                        c.do_kerberos, c.port)

\* Between two statements, or while a library call blocks, the scheduler
\* hands control to the other call. What a run reads and writes are the
\* fields of its own object (self.data ... self.logger) and the locals of its
\* own run and rpc_connect frames, and a login call keeps its arguments,
\* locals and connections to itself, so each finds them as it left them;
\* self.logger.extra of the one LDAPConnect object and the log handlers of
\* the process are the same for both.
Switch ==
    /\ cur' = 3 - cur
    /\ other' = [pc |-> pc, op |-> op, attempts |-> attempts,
                 records |-> records, ret |-> ret,
                 laps |-> laps, frame |-> frame, dce |-> dce, trace |-> trace,
                 call |-> call]
    /\ pc' = other.pc
    /\ op' = other.op
    /\ attempts' = other.attempts
    /\ records' = other.records
    /\ ret' = other.ret
    /\ laps' = other.laps
    /\ frame' = other.frame
    /\ dce' = other.dce
    /\ trace' = other.trace
    /\ call' = other.call
    /\ UNCHANGED <<extra, sink>>

NextTwoRuns ==
    \/ ConstructOwn
    \/ Unpack
    \/ DecodeContentInfo
    \/ DecodeEnvelopedData
    \/ SelectRecipient
    \/ ExtractKeyId
    \/ CreateSd
    \/ HeptMap
    \/ Transport
    \/ SetAuthLevelFirst
    \/ SetAuthLevelSecond
    \/ Connect
    \/ ConnectAnswer
    \/ Bind
    \/ BindAnswer
    \/ GetKey
    \/ GetKeyAnswer
    \/ Envelope
    \/ ComputeKek
    \/ DecodeIV
    \/ UnwrapCek
    \/ Decrypt
    \/ Strip
    \/ Switch

SpecTwoRuns == Init /\ [][NextTwoRuns]_vars

\* ------------------------------- two login calls on one LDAPConnect object

\* What each of two threads calls the login methods of the one object with.
TwoLoginArgs(i) ==
    IF i = 1
    THEN LoginArgs(<<"corp", ".", "local">>, <<"alice">>, <<"P@ssw0rd!">>, <<>>,
                   <<>>, None, FALSE)
    ELSE LoginArgs(<<"corp", ".", "local">>, <<"bob">>, <<"Secret1">>, <<>>,
                   <<>>, None, FALSE)

\* Thread cur calls auth_login.
AuthLoginOwn ==
    /\ pc = "idle"
    /\ LET c == TwoLoginArgs(cur)
       IN  CallAuthLogin(c.domain, c.username, c.password, c.ntlm_hash)

\* Thread cur calls kerberos_login.
KerberosLoginOwn ==
    /\ pc = "idle"
    /\ LET c == TwoLoginArgs(cur)
       IN  CallKerberosLogin(c.domain, c.username, c.password, c.ntlm_hash,
                             c.aesKey, c.kdcHost, c.useCache)

NextTwoLogins ==
    \/ AuthLoginOwn
    \/ AuthConnect
    \/ AuthBind
    \/ AuthProtocol
    \/ AuthPort
    \/ AuthRetryConnect
    \/ AuthRetryBind
    \/ AuthRetryProtocol
    \/ AuthRetryPort
    \/ KerberosLoginOwn
    \/ KerberosConnect
    \/ KerberosBind
    \/ KerberosProtocol
    \/ KerberosPort
    \/ KerberosRetryConnect
    \/ KerberosRetryBind
    \/ KerberosRetryProtocol
    \/ KerberosRetryPort
    \/ Return
    \/ Switch

SpecTwoLogins == Init /\ [][NextTwoLogins]_vars

\* ----------------------------------------------------------------- claims

\* A login call has returned.
LoginReturned == pc = "returned" /\ op \in {"auth_login", "kerberos_login"}

\* run has ended.
RunReturned == pc = "returned" /\ op = "run" /\ DOMAIN laps # {}

\* The message names the word.
Mentions(msg, word) == \E i \in 1..Len(msg) : msg[i] = word

\* The stage was carried out.
Did(stage) == \E i \in 1..Len(trace) : trace[i] = stage

\* A bind call was made on the attempt's connection.
Called(a) == a.method # "none"

\* The attempt was rejected with a session error.
SessionError(a) == a.outcome.kind = "LDAPSessionError"

\* The attempt was answered 'strongerAuthRequired'.
StrongerAuthRequired(a) ==
    SessionError(a) /\ Mentions(a.outcome.msg, "strongerAuthRequired")

\* C1: a login call whose plaintext (ldap://) attempt is answered
\* 'strongerAuthRequired' makes exactly one further attempt, over ldaps://;
\* when that one is rejected with a session error too the call returns False;
\* no call makes more than two attempts.
C1_OneEncryptedRetry ==
    LoginReturned =>
        /\ Len(attempts) <= 2
        /\ (Len(attempts) >= 1 /\ StrongerAuthRequired(attempts[1])) =>
              /\ Len(attempts) = 2
              /\ attempts[1].url[1] = "ldap://"
              /\ attempts[2].url[1] = "ldaps://"
              /\ SubSeq(attempts[2].url, 2, Len(attempts[2].url))
                    = SubSeq(attempts[1].url, 2, Len(attempts[1].url))
        /\ (Len(attempts) = 2 /\ SessionError(attempts[2])) => ret = False

C1_Witness ==
    /\ LoginReturned
    /\ Len(attempts) = 2
    /\ StrongerAuthRequired(attempts[1])
    /\ StrongerAuthRequired(attempts[2])
    /\ attempts[2].url[1] = "ldaps://"
    /\ ret = False

\* C2: a login call that made a bind attempt ends by returning a session or
\* False, whatever the directory client raised on either attempt.
C2_NoExceptionEscapesLogin ==
    (LoginReturned /\ attempts # <<>>) => ret.kind \in {"session", "False"}

\* C3: on a blob that one of the decode steps rejects, run ends before any
\* RPC channel is made and returns None, raising nothing.
C3_MalformedBlobReturnsNone ==
    (RunReturned /\ ~Decodes(laps.data)) => (~dce.made /\ ret.kind = "None")

\* The last stage run carried out.
LastStage == trace[Len(trace)]

\* C4: when connect or bind fails, run ends with None, GetKey not called and
\* nothing raised.
C4_ChannelFailureReturnsNone ==
    (RunReturned /\ trace # <<>> /\ LastStage \in {"connect", "bind"}) =>
        (ret.kind = "None" /\ ~Did("GetKey"))

\* C5: on the blob built from password P under root key rk, with a key
\* service that releases rk, run returns exactly P.
C5_RoundTrip ==
    \A P \in Passwords, rk \in RootKeys, k \in KeyIds, sid \in Sids,
       cek \in ContentKeys, iv \in IVs :
        ( /\ RunReturned
          /\ laps.data = BuildBlob(P, rk, k, sid, cek, iv)
          /\ "resp" \in DOMAIN frame
          /\ frame.resp.rootKey = rk )
        => (ret.kind = "str" /\ ret.val = P)

C5_Witness ==
    /\ RunReturned
    /\ laps.data = BuildBlob(<<"A", "U+20AC">>, "RK1",
                             [RootKeyId |-> "root-A", L0Index |-> 1,
                              L1Index |-> 0, L2Index |-> 0],
                             <<"S-1-5-21-1-2-3-512">>, "CEK1",
                             <<0, 1, 2, 3, 4, 5, 6, 7, 8, 9, 10, 11>>)
    /\ "resp" \in DOMAIN frame
    /\ frame.resp.rootKey = "RK1"
    /\ ret = Returned("str", <<"A", "U+20AC">>)

\* The root key the blob's content key is wrapped under.
BlobRootKey(data) == data.recipientInfos[1].encryptedKey.kek.rootKey

\* C6: when the key service releases another root key than the blob's, or
\* GetKey, the CEK unwrap or the decryption fails, run returns None: no
\* string and no exception.
C6_CryptoFailureReturnsNone ==
    ( /\ RunReturned
      /\ Did("GetKey")
      /\ \/ "resp" \notin DOMAIN frame
         \/ frame.resp.rootKey # BlobRootKey(laps.data)
         \/ Did("unwrap_cek") /\ "cek" \notin DOMAIN frame
         \/ Did("decrypt") /\ "plaintext" \notin DOMAIN frame )
    => ret.kind = "None"

\* The classification the fixed table gives a status code.
TableEntries(code) == {p \in StatusTable : p[1] = code}

\* C7: a login call whose last attempt is rejected with a session error that
\* is not escalated returns False and logs one failure whose classification
\* is the table's entry for the error's status code, or empty when the table
\* has none.
C7_Classified ==
    \A r \in ResultNames, c \in ErrCodes :
        ( /\ LoginReturned
          /\ attempts # <<>>
          /\ attempts[Len(attempts)].outcome.kind = "LDAPSessionError"
          /\ attempts[Len(attempts)].outcome.msg = BindError(r, c)
          /\ (Len(attempts) = 2 \/ r # "strongerAuthRequired") )
        => /\ ret = False
           /\ Len(records) = 1
           /\ records[1].level = "fail"
           /\ LET a == attempts[1]
                  shown == IF TableEntries(c) = {} THEN <<>>
                           ELSE <<(CHOOSE p \in TableEntries(c) : TRUE)[2]>>
                  hash == IF a.lmhash = <<>> THEN a.nthash
                          ELSE a.lmhash \o <<":">> \o a.nthash
                  secret == IF a.password # <<>> THEN a.password ELSE hash
              IN  records[1].msg =
                      a.domain \o <<"\\">> \o a.username \o <<":">> \o secret
                          \o <<" ">> \o shown

C7_Witness ==
    /\ LoginReturned
    /\ op = "kerberos_login"
    /\ Len(attempts) = 2
    /\ attempts[2].outcome.msg = BindError("invalidCredentials", <<"5", "3", "3">>)
    /\ ret = False
    /\ Len(records) = 1
    /\ records[1].msg[Len(records[1].msg)] = "STATUS_ACCOUNT_DISABLED"

\* C8: the encrypted retry is made in the same authentication mode and with
\* the same username, password, domain, LM hash and NT hash as the plaintext
\* attempt.
C8_RetrySameModeAndCredentials ==
    (LoginReturned /\ Len(attempts) = 2 /\ Called(attempts[2])) =>
        /\ attempts[2].method = attempts[1].method
        /\ attempts[2].username = attempts[1].username
        /\ attempts[2].password = attempts[1].password
        /\ attempts[2].domain = attempts[1].domain
        /\ attempts[2].lmhash = attempts[1].lmhash
        /\ attempts[2].nthash = attempts[1].nthash

\* The stages the ordering is stated over, in the stated order.
StatedOrder ==
    <<"ContentInfo", "EnvelopedData", "recipient", "key_id", "create_sd", "bind",
      "GetKey", "GroupKeyEnvelope", "compute_kek", "iv", "unwrap_cek", "decrypt",
      "strip">>

IsStated(stage) == \E i \in 1..Len(StatedOrder) : StatedOrder[i] = stage

\* C9: the stages of run happen in the stated order, none skipped: what was
\* carried out so far is always a prefix of the order, all of it when a
\* password is returned; GetKey only on a bound channel, the CEK unwrap only
\* with the KEK derived, the decryption only with the CEK and the IV.
C9_StageOrder ==
    op = "run" =>
        LET done == SelectSeq(trace, IsStated)
        IN  /\ Len(done) <= Len(StatedOrder)
            /\ done = SubSeq(StatedOrder, 1, Len(done))
            /\ ret.kind = "str" => done = StatedOrder
            /\ Did("GetKey") => (dce.connected /\ dce.bound)
            /\ Did("unwrap_cek") => "kek" \in DOMAIN frame
            /\ Did("decrypt") => ("cek" \in DOMAIN frame /\ "iv" \in DOMAIN frame)

C9_Witness ==
    /\ RunReturned
    /\ ret.kind = "str"
    /\ SelectSeq(trace, IsStated) = StatedOrder

\* The channel's level at and after connect, and what bind and run wait for.
ChannelGuarded ==
    /\ (pc = "connect" \/ Did("connect")) =>
            dce.auth_level = RPC_C_AUTHN_LEVEL_PKT_PRIVACY
    /\ Did("bind") => dce.connected
    /\ "dce" \in DOMAIN frame => (dce.connected /\ dce.bound)

\* C10: when connect is invoked the channel's level is packet privacy, and
\* while the call lasts no step lowers it; bind is invoked only on a
\* connected channel; run gets a channel only once it is bound.
C10_PrivacyBeforeConnect ==
    /\ []ChannelGuarded
    /\ [][(Did("connect") /\ op' = "run") => dce'.auth_level >= dce.auth_level]_vars

C10_Witness ==
    /\ op = "run"
    /\ "dce" \in DOMAIN frame
    /\ dce.bound
    /\ dce.auth_level = RPC_C_AUTHN_LEVEL_PKT_PRIVACY

\* The last bind attempt of the call.
LastAttempt == attempts[Len(attempts)]

\* C11: a login call whose bind attempt met a network-level failure returns
\* False after one record that is a failure report like that of a rejected
\* authentication, carrying the KDC-host guidance and no classification, and
\* the failed attempt is the call's last.
C11_NetworkFailureReported ==
    (LoginReturned /\ \E k \in 1..Len(attempts) : attempts[k].outcome.kind = "OSError")
    => /\ LastAttempt.outcome.kind = "OSError"
       /\ ret = False
       /\ Len(records) = 1
       /\ records[1].level = "fail"
       /\ records[1].msg[Len(records[1].msg)] = KdcHostGuidance[1]
       /\ \A p \in StatusTable : ~Mentions(records[1].msg, p[2])

\* C12 as stated: every login call that reached the directory emits exactly
\* one record before it returns.
C12_OneRecordPerCall ==
    (LoginReturned /\ attempts # <<>>) => Len(records) = 1

\* C12: a login call that returns False has emitted exactly one record, a
\* failure or a debug record; a call that returns a session has emitted none;
\* no call emits more than one.
C12_OneRecordPerFailure ==
    LoginReturned =>
        /\ Len(records) <= 1
        /\ ret = False =>
              (Len(records) = 1 /\ records[1].level \in {"fail", "debug"})
        /\ ret.kind = "session" => records = <<>>

C12_Witness ==
    /\ LoginReturned
    /\ op = "kerberos_login"
    /\ Len(attempts) = 1
    /\ attempts[1].outcome.kind = "KerberosError"
    /\ ret = False
    /\ Len(records) = 1
    /\ records[1].level = "fail"

\* How many times the stage was carried out.
Count(stage) == Cardinality({i \in 1..Len(trace) : trace[i] = stage})

\* C13: within one run the endpoint lookup, the connect, the bind and the
\* GetKey call are each made at most once.
C13_NoRetry ==
    op = "run" =>
        \A stage \in {"hept_map", "connect", "bind", "GetKey"} : Count(stage) <= 1

C13_Witness ==
    /\ RunReturned
    /\ trace # <<>>
    /\ LastStage = "GetKey"
    /\ ret.kind = "raise"
    /\ Count("hept_map") = 1 /\ Count("connect") = 1
    /\ Count("bind") = 1 /\ Count("GetKey") = 1

\* C15: in every bind attempt a non-empty password makes the hash pair
\* unused: the LM and NT values handed to the directory client are empty.
C15_PasswordSupersedesHash ==
    LoginReturned =>
        \A k \in 1..Len(attempts) :
            (Called(attempts[k]) /\ attempts[k].password # <<>>) =>
                (attempts[k].lmhash = <<>> /\ attempts[k].nthash = <<>>)

\* The positions of the colons of a hash argument.
Colons(h) == {i \in 1..Len(h) : h[i] = ":"}

\* The halves of a hash argument of at most one colon.
HalfLM(h) ==
    IF Colons(h) = {} THEN <<>>
    ELSE SubSeq(h, 1, (CHOOSE i \in Colons(h) : TRUE) - 1)
HalfNT(h) ==
    IF Colons(h) = {} THEN h
    ELSE SubSeq(h, (CHOOSE i \in Colons(h) : TRUE) + 1, Len(h))

\* C16: the LM and NT halves handed to every bind attempt, and kept by a
\* LAPSv2Extract object and handed to its transport, are the text before and
\* after the colon of 'LM:NT', the whole input as NT for an input with no
\* colon, and empty for the empty input; the two normalisations agree.
C16_HashHalves ==
    /\ \A h \in Hashes \cup RunHashes :
          Cardinality(Colons(h)) <= 1 =>
              /\ SplitHash(h) = [ok |-> TRUE, exc |-> "", lmhash |-> HalfLM(h),
                                 nthash |-> HalfNT(h)]
              /\ SplitHashV2(h) = SplitHash(h)
    /\ LoginReturned =>
          \A k \in 1..Len(attempts) :
              Called(attempts[k]) =>
                  /\ attempts[k].lmhash = HalfLM(call.ntlm_hash)
                  /\ attempts[k].nthash = HalfNT(call.ntlm_hash)
    /\ (op = "run" /\ DOMAIN laps # {}) =>
          /\ laps.lmhash = HalfLM(call.ntlm_hash)
          /\ laps.nthash = HalfNT(call.ntlm_hash)
          /\ (dce.made /\ dce.credentials # <<>>) =>
                (dce.credentials[4] = laps.lmhash /\ dce.credentials[5] = laps.nthash)

C16_Witness ==
    /\ LoginReturned
    /\ call.password = <<>>
    /\ call.ntlm_hash = <<"aad3b435b51404eeaad3b435b51404ee", ":",
                          "31d6cfe0d16ae931b73c59d7e0c089c0">>
    /\ Len(attempts) = 1
    /\ attempts[1].lmhash = <<"aad3b435b51404eeaad3b435b51404ee">>
    /\ attempts[1].nthash = <<"31d6cfe0d16ae931b73c59d7e0c089c0">>
    /\ ret.kind = "session"

\* C17: an ldaps:// attempt is only ever the second, made after an ldap://
\* attempt answered 'strongerAuthRequired'; after any other answer to the
\* plaintext attempt the call makes no further attempt and, unless the bind
\* succeeded, returns False.
C17_EncryptedOnlyAfterStrongerAuth ==
    LoginReturned =>
        /\ \A k \in 1..Len(attempts) :
              attempts[k].url[1] = "ldaps://" =>
                  /\ k = 2
                  /\ attempts[1].url[1] = "ldap://"
                  /\ StrongerAuthRequired(attempts[1])
        /\ (attempts # <<>> /\ ~StrongerAuthRequired(attempts[1])) =>
              /\ Len(attempts) = 1
              /\ attempts[1].outcome.kind = "ok" => ret.kind = "session"
              /\ attempts[1].outcome.kind # "ok" => ret = False

C17_Witness ==
    /\ LoginReturned
    /\ Len(attempts) = 1
    /\ SessionError(attempts[1])
    /\ ~StrongerAuthRequired(attempts[1])
    /\ ret = False

\* C18: a returned session is the connection of the call's last attempt,
\* whose bind succeeded, and the logger context names its transport: LDAP and
\* 389 for the plaintext attempt, LDAPS and 636 for the encrypted retry.
C18_ContextNamesTransport ==
    (LoginReturned /\ ret.kind = "session") =>
        /\ attempts # <<>>
        /\ LastAttempt.outcome.kind = "ok"
        /\ ret.val = LastAttempt.url
        /\ LastAttempt.url[1] = "ldap://" =>
              (Len(attempts) = 1 /\ extra.protocol = "LDAP" /\ extra.port = "389")
        /\ LastAttempt.url[1] = "ldaps://" =>
              (Len(attempts) = 2 /\ extra.protocol = "LDAPS" /\ extra.port = "636")

C18_Witness ==
    /\ LoginReturned
    /\ ret.kind = "session"
    /\ Len(attempts) = 2
    /\ ret.val[1] = "ldaps://"
    /\ extra.protocol = "LDAPS"
    /\ extra.port = "636"

\* The logger contexts an LDAPConnect object can show: the constructor's, or
\* that with the protocol and port of a bound transport.
Contexts ==
    LET made == proto_logger(<<"10.0.0.1">>, "3268", <<"dc01">>)
    IN  {made, [made EXCEPT !.protocol = "LDAP", !.port = "389"],
         [made EXCEPT !.protocol = "LDAPS", !.port = "636"]}

\* C19: the logger context changes only in the two assignments that follow
\* a successful bind of a login call, which then returns a session; a call
\* that ends in failure, and every other step, leaves it as it was, so
\* between calls and wherever a call stands outside those two assignments it
\* shows the constructor's values or the transport of the latest successful
\* bind.
C19_FailureKeepsContext ==
    /\ [](pc \notin {"ldap_port", "ldaps_port"} => extra \in Contexts)
    /\ [][extra' # extra =>
            /\ op \in {"auth_login", "kerberos_login"}
            /\ pc \in {"ldap_protocol", "ldap_port", "ldaps_protocol", "ldaps_port"}
            /\ attempts # <<>>
            /\ LastAttempt.outcome.kind = "ok"
            /\ pc' = "returned" => ret'.kind = "session"]_vars

C19_Witness ==
    /\ LoginReturned
    /\ Len(attempts) = 2
    /\ SessionError(attempts[2])
    /\ ret = False
    /\ extra.protocol = "LDAP"
    /\ extra.port = "389"

\* C20: every bind attempt of kerberos_login is handed the caller's AES key
\* and ticket-cache flag, and as KDC host the caller's, or the domain when
\* the caller gave none, never an empty one.
C20_KerberosParametersPassed ==
    (LoginReturned /\ op = "kerberos_login") =>
        \A k \in {i \in 1..Len(attempts) : Called(attempts[i])} :
            /\ attempts[k].aesKey = call.aesKey
            /\ attempts[k].useCache = call.useCache
            /\ attempts[k].kdcHost =
                  (IF call.kdcHost \in {None, <<>>} THEN call.domain ELSE call.kdcHost)
            /\ attempts[k].kdcHost # <<>>

\* The state of run i: the running one's is in the variables, the waiting
\* one's is kept aside.
Ctx(i) ==
    IF i = cur
    THEN [pc |-> pc, op |-> op, attempts |-> attempts, records |-> records,
          ret |-> ret, laps |-> laps, frame |-> frame, dce |-> dce,
          trace |-> trace, call |-> call]
    ELSE other

\* The run is under way or has ended.
Started(c) == c.op = "run" /\ DOMAIN c.laps # {}

\* Everything the state of run i holds comes from the arguments of run i:
\* its object keeps its caller's blob and account, its channel is bound to
\* its own domain with its own credentials, and its locals are parts of its
\* own blob.
Own(c, i) ==
    Started(c) =>
        /\ c.call.data \in TwoRunBlobs(i)
        /\ c.call.username = TwoRunCredentials(i).username
        /\ c.laps.data = c.call.data
        /\ c.laps.username = c.call.username
        /\ c.laps.domain = c.call.domain
        /\ c.laps.extra.host = c.call.domain
        /\ c.dce.made =>
              /\ c.dce.credentials \in
                    {<<>>, <<c.laps.username, c.laps.password, c.laps.domain,
                             c.laps.lmhash, c.laps.nthash>>}
              /\ c.dce.remoteHost = c.laps.domain
              /\ c.dce.kerberos = c.laps.do_kerberos
              /\ c.dce.stringBinding = c.frame.stringBinding
        /\ "rawblob" \in DOMAIN c.frame => c.frame.rawblob = c.call.data
        /\ "remaining" \in DOMAIN c.frame => c.frame.remaining = c.call.data.remaining
        /\ "stringBinding" \in DOMAIN c.frame =>
              c.frame.stringBinding = <<"ncacn_ip_tcp:">> \o c.call.domain \o <<"[49667]">>
        /\ "plaintext" \in DOMAIN c.frame =>
              c.frame.plaintext = c.call.data.remaining.plaintext

\* What run i returns when it runs alone on its blob and is given the
\* answers it was given here.
Alone(c) ==
    run(c.call.data,
        "stringBinding" \in DOMAIN c.frame,
        c.dce.connected,
        c.dce.bound,
        "resp" \in DOMAIN c.frame,
        IF "resp" \in DOMAIN c.frame THEN c.frame.resp.rootKey
        ELSE CHOOSE rk \in RootKeys : TRUE)

\* The context the logger of run i's object was made with.
OwnContext(i) ==
    LET c == TwoRunCredentials(i)
    IN  proto_logger(c.domain, c.port, c.domain)

\* The handlers hold every record run i logged, once, as run i logged it and
\* under the context of run i's own object, and nothing else; the records
\* that name a binding or a password name run i's own.
SinkOwn ==
    /\ \A e \in sink :
          /\ e.by \in RunIds
          /\ e.extra = OwnContext(e.by)
          /\ e.n \in 1..Len(Ctx(e.by).records)
          /\ e.record = Ctx(e.by).records[e.n]
          /\ e.record.msg[1] = "[-] Connecting to " =>
                e.record.msg = <<"[-] Connecting to ", "ncacn_ip_tcp:">>
                                  \o TwoRunCredentials(e.by).domain \o <<"[49667]">>
    /\ \A i \in RunIds :
          /\ \A n \in 1..Len(Ctx(i).records) :
                \E e \in sink : e.by = i /\ e.n = n
          /\ Ctx(i).ret.kind = "str" =>
                /\ Ctx(i).ret.val = TwoRunPasswords(i)
                /\ Ctx(i).records[Len(Ctx(i).records)].msg = TwoRunPasswords(i)

\* Each run's own state comes from its own arguments and each run that has
\* ended has ended as it ends alone.
EachAsAlone ==
    \A i \in RunIds :
        /\ Own(Ctx(i), i)
        /\ (Started(Ctx(i)) /\ Ctx(i).pc = "returned") => Ctx(i).ret = Alone(Ctx(i))

\* C14 as stated: two interleaved runs on different blobs and credentials
\* share no mutable state, so nothing is written by both of them, and each
\* run ends as it ends alone.
C14_NoSharedState ==
    /\ \A e1, e2 \in sink : e1.by = e2.by
    /\ EachAsAlone

\* C14, amended: two interleaved runs on different blobs and credentials
\* share the handlers their loggers write to and nothing else. Each run only
\* adds to what the handlers hold, its own records under its own object's
\* context; no step of a run writes the context of the LDAPConnect logger; a
\* step of one run, whether a statement or the return of a call it was
\* blocked in, changes nothing the other run holds, and handing control over
\* changes nothing of either; each run's object, channel and locals come
\* from its own arguments only, and each run ends as it ends alone.
C14_RunsShareOnlyTheSink ==
    /\ [](EachAsAlone /\ SinkOwn)
    /\ [][/\ sink \subseteq sink'
          /\ \A e \in sink' \ sink : e.by = cur /\ cur' = cur
          /\ extra' = extra
          /\ \A i \in RunIds : (cur' # cur \/ i # cur) => Ctx(i)' = Ctx(i)]_vars

\* Run 1 waits inside GkdiGetKey with its record logged and no answer yet,
\* while run 2, which started later, has gone past it and returned its own
\* password; the handlers hold records of both.
C14_Witness ==
    /\ Ctx(1).pc = "GkdiGetKey"
    /\ "resp" \notin DOMAIN Ctx(1).frame
    /\ Ctx(1).dce.credentials # <<>>
    /\ Ctx(1).dce.credentials[1] = <<"alice">>
    /\ Ctx(2).pc = "returned"
    /\ Ctx(2).ret = Returned("str", TwoRunPasswords(2))
    /\ Ctx(2).dce.credentials # <<>>
    /\ Ctx(2).dce.credentials[1] = <<"svc_laps">>
    /\ \E e1, e2 \in sink :
          /\ e1.by = 1 /\ e1.record.msg = <<"[-] Calling MS-GKDI GetKey">>
          /\ e2.by = 2 /\ e2.record.msg = TwoRunPasswords(2)
          /\ e1.extra # e2.extra

====
